---------------------------- MODULE Spec2Model ----------------------------
(***************************************************************************)
(* Model of horn_main.cpp: the BMP codec (get_int, read_image, set_bytes,  *)
(* write_image), the rotation helper rotate_90, the transforms process_4,  *)
(* process_5, process_6 and process_10, and the decode -> transform ->     *)
(* encode sequence run by execute from the menu loop.                      *)
(*                                                                         *)
(* A file is a sequence of bytes (0..255); an image is a sequence of rows, *)
(* each row a sequence of pixels [red, green, blue]; row 1 of the model is *)
(* row 0 of the program.                                                   *)
(***************************************************************************)
EXTENDS Integers, Sequences, FiniteSets, TLC

(***************************************************************************)
(* Bounds of the model.                                                    *)
(***************************************************************************)
\* largest number of rows of an image encoded into an input file
MaxRows == 3
\* largest number of columns of an image encoded into an input file
MaxCols == 4
\* largest enlarge factor the user enters (process_6)
MaxScale == 2
\* largest rotation count the user enters (process_5)
MaxRot == 5

(***************************************************************************)
(* 32-bit signed int arithmetic of the program.  A value is an integer in  *)
(* MinInt32..MaxInt32.  Sums and products are formed on the four bytes of  *)
(* the two's complement representation, so no intermediate value leaves    *)
(* the 32-bit range.  Signed overflow is undefined behaviour: Add32 and    *)
(* Mul32 give the wrapped result, AddOv and MulOv say that the operation   *)
(* overflowed, and the decoder step lets an overflowing run also end in a  *)
(* trap (see GetImageTrap).                                                *)
(***************************************************************************)
MaxInt32 == 2147483647
MinInt32 == -MaxInt32 - 1
Byte == 256
Byte2 == Byte * Byte
Byte3 == Byte2 * Byte

\* the element of a set of one element; {e(x) : x \in {v}} computes v once
The(S) == CHOOSE x \in S : TRUE

\* the four little-endian bytes of the two's complement form of x
Limbs(x) ==
    LET u == IF x >= 0 THEN x ELSE -(x + 1)
        b == <<u % Byte, (u \div Byte) % Byte, (u \div Byte2) % Byte, (u \div Byte3) % Byte>>
    IN  IF x >= 0 THEN b ELSE [i \in 1..4 |-> 255 - b[i]]

\* the signed value of four little-endian bytes
FromLimbs(l) ==
    IF l[4] < 128
    THEN l[1] + l[2] * Byte + l[3] * Byte2 + l[4] * Byte3
    ELSE -((255 - l[1]) + (255 - l[2]) * Byte + (255 - l[3]) * Byte2 + (255 - l[4]) * Byte3) - 1

\* C++ integer division and remainder (truncation toward zero), b > 0
CDiv(a, b) ==
    IF a >= 0 THEN a \div b
    ELSE -(((-(a + 1)) \div b) + (IF (-(a + 1)) % b = b - 1 THEN 1 ELSE 0))

CMod(a, b) == a - b * CDiv(a, b)

\* the mathematical sum a + b lies outside the 32-bit range
AddOv(a, b) ==
    \/ a > 0 /\ b > MaxInt32 - a
    \/ a < 0 /\ b < MinInt32 - a

\* a + b modulo 2^32
Add32(a, b) ==
    IF ~AddOv(a, b) THEN a + b
    ELSE IF a > 0 THEN (a - MaxInt32 - 1) + (b - MaxInt32 - 1)
    ELSE (a + MaxInt32 + 1) + (b + MaxInt32 + 1)

\* the columns of the schoolbook product of two byte quadruples, with carry
MulCol1(x, y) == x[1] * y[1]
MulCol2(x, y) == x[1] * y[2] + x[2] * y[1] + (MulCol1(x, y) \div Byte)
MulCol3(x, y) == x[1] * y[3] + x[2] * y[2] + x[3] * y[1] + (MulCol2(x, y) \div Byte)
MulCol4(x, y) ==
    x[1] * y[4] + x[2] * y[3] + x[3] * y[2] + x[4] * y[1] + (MulCol3(x, y) \div Byte)

\* factors whose mathematical product is inside the 32-bit range
SmallFactors(a, b) == a > -32768 /\ a < 32768 /\ b >= -65536 /\ b <= 65536

\* the low four bytes of the schoolbook product of the byte quadruples x, y
MulLimbs(x, y) ==
    FromLimbs(<<MulCol1(x, y) % Byte, MulCol2(x, y) % Byte,
                MulCol3(x, y) % Byte, MulCol4(x, y) % Byte>>)

\* a * b modulo 2^32
Mul32(a, b) ==
    IF a = 0 \/ b = 0 THEN 0
    ELSE IF SmallFactors(a, b) THEN a * b
    ELSE The({MulLimbs(x, y) : x \in {Limbs(a)}, y \in {Limbs(b)}})

\* r is the wrapped product of a and b, a # 0: r is not the mathematical product
NotProduct(a, b, r) ==
    IF a > 0 THEN CDiv(r, a) # b \/ CMod(r, a) # 0
    ELSE -CDiv(r, -a) # b \/ CMod(r, -a) # 0

\* the mathematical product a * b lies outside the 32-bit range
MulOv(a, b) ==
    /\ a # 0
    /\ b # 0
    /\ ~SmallFactors(a, b)
    /\ IF a = -1 THEN b = MinInt32 ELSE \E r \in {Mul32(a, b)} : NotProduct(a, b, r)

(***************************************************************************)
(* The input stream (fstream).  A file is [open, data]: open is FALSE when *)
(* the file cannot be opened, data is its byte sequence.  `failed` is the  *)
(* stream's failbit: it is set from the start when the open failed, it is  *)
(* set by a get() at or past the end of the data, and once set every       *)
(* seekg is a no-op and every get() returns EOF.                           *)
(***************************************************************************)
EOF_ == -1

\* a get() that yields 0 instead of EOF at the end of the data
stream_get_zero(data, failed, pos) ==
    IF failed \/ pos < 0 \/ pos >= Len(data) THEN 0 ELSE data[pos + 1]

\* stream.seekg(pos); stream.get(): the byte at pos, or EOF
stream_get(data, failed, pos) ==
    IF failed \/ pos < 0 \/ pos >= Len(data) THEN EOF_ ELSE data[pos + 1]

\* the failbit after n >= 1 consecutive get() calls starting at pos
stream_fail(data, failed, pos, n) ==
    failed \/ pos < 0 \/ pos + n > Len(data)

(***************************************************************************)
(* get_int: the loop of lines 31-35, iteration i with the running result   *)
(* and base.  The value is [value, ov]: ov says that one of the signed     *)
(* operations (get()*base, result + ..., base*256) overflowed.             *)
(***************************************************************************)
RECURSIVE get_int_loop(_, _, _, _, _, _, _, _)
\* line 33 and line 34 with the byte c that stream.get() returned
get_int_step(data, failed, offset, bytes, i, result, base, ov, c) ==
    The({get_int_loop(data, failed, offset, bytes, i + 1, n[1], n[2], n[3]) :
            n \in {<<Add32(result, Mul32(c, base)), Mul32(base, Byte),
                     ov \/ MulOv(c, base) \/ AddOv(result, Mul32(c, base))
                        \/ MulOv(base, Byte)>>}})

get_int_loop(data, failed, offset, bytes, i, result, base, ov) ==
    IF i >= bytes THEN [value |-> result, ov |-> ov]
    ELSE The({get_int_step(data, failed, offset, bytes, i, result, base, ov, c) :
                 c \in {stream_get(data, failed, offset + i)}})

get_int(data, failed, offset, bytes) ==
    get_int_loop(data, failed, offset, bytes, 0, 0, 1, FALSE)

(***************************************************************************)
(* read_image.  The header fields, the scan line arithmetic and the check  *)
(* of line 66, then the pixel loop of lines 77-100.                        *)
(***************************************************************************)
\* lines 51-55: the five header reads; the failbit before each read is the
\* one the reads before it left
header_of(fs, st, wd, ht, bp, failed) ==
    [file_size |-> fs.value, start |-> st.value, width |-> wd.value,
     height |-> ht.value, bits_per_pixel |-> bp.value,
     failed |-> failed,
     ov |-> fs.ov \/ st.ov \/ wd.ov \/ ht.ov \/ bp.ov]

read_header(file) ==
    LET f0 == ~file.open
        f1 == stream_fail(file.data, f0, 2, 4)
        f2 == stream_fail(file.data, f1, 10, 4)
        f3 == stream_fail(file.data, f2, 18, 4)
        f4 == stream_fail(file.data, f3, 22, 4)
        f5 == stream_fail(file.data, f4, 28, 2)
    IN  header_of(get_int(file.data, f0, 2, 4), get_int(file.data, f1, 10, 4),
                  get_int(file.data, f2, 18, 4), get_int(file.data, f3, 22, 4),
                  get_int(file.data, f4, 28, 2), f5)

\* line 58
scanline_size(h) == Mul32(h.width, CDiv(h.bits_per_pixel, 8))

\* the padding without the test of line 60
padding_always(h) == 4 - CMod(scanline_size(h), 4)

\* lines 59-63
padding(h) ==
    IF CMod(scanline_size(h), 4) # 0 THEN 4 - CMod(scanline_size(h), 4) ELSE 0

\* scanline_size + padding
row_size(h) == Add32(scanline_size(h), padding(h))

\* line 66: start + (scanline_size + padding) * height
expected_size(h) == Add32(h.start, Mul32(row_size(h), h.height))

\* a signed operation of lines 58-66 overflows
header_ov(h) ==
    \/ MulOv(h.width, CDiv(h.bits_per_pixel, 8))
    \/ AddOv(scanline_size(h), padding(h))
    \/ MulOv(row_size(h), h.height)
    \/ AddOv(h.start, Mul32(row_size(h), h.height))

\* lines 83-89: one pixel read at pos
read_pixel(data, failed, pos) ==
    [blue  |-> stream_get(data, failed, pos),
     green |-> stream_get(data, stream_fail(data, failed, pos, 1), pos + 1),
     red   |-> stream_get(data, stream_fail(data, failed, pos, 2), pos + 2)]

\* lines 77-100: the pixels in the order they are read (file row k from the
\* bottom row up, column j), acc the pixels read so far
RECURSIVE read_pixels(_, _, _, _, _, _, _, _)
read_pixels(data, failed, pos, k, j, h, pad, acc) ==
    IF k >= h.height THEN acc
    ELSE IF j >= h.width
         THEN read_pixels(data, failed, pos + pad, k + 1, 0, h, pad, acc)
         ELSE read_pixels(data, stream_fail(data, failed, pos, 3),
                          pos + CDiv(h.bits_per_pixel, 8), k, j + 1, h, pad,
                          Append(acc, read_pixel(data, failed, pos)))

\* lines 72-104 with the pixels px in the order they were read
image_of(h, px) ==
    [status |-> "ok", hdr |-> h,
     image |-> [i \in 1..h.height |->
                  [j \in 1..h.width |-> px[(h.height - i) * h.width + j]]],
     reads |-> 3 * Len(px)]

\* read_image after the header reads: [status, hdr, image, reads]
\*   "rejected"  line 68, the empty vector is returned
\*   "throws"    line 72, a negative width or height converts to a huge
\*               size_t and the vector constructor throws std::length_error
\*   "ok"        line 104, the image is returned
decode(file, h) ==
    IF h.file_size # expected_size(h)
    THEN [status |-> "rejected", hdr |-> h, image |-> <<>>, reads |-> 0]
    ELSE IF h.width < 0 \/ h.height < 0
    THEN [status |-> "throws", hdr |-> h, image |-> <<>>, reads |-> 0]
    ELSE The({image_of(h, px) :
                 px \in {read_pixels(file.data, h.failed, h.start, 0, 0, h, padding(h), <<>>)}})

read_image(file) == The({decode(file, h) : h \in {read_header(file)}})

\* a signed overflow is evaluated somewhere in read_image's header handling
any_ov(h) == h.ov \/ header_ov(h)
read_ov(file) == \E h \in {read_header(file)} : any_ov(h)

(***************************************************************************)
(* set_bytes and write_image.                                              *)
(***************************************************************************)
\* (unsigned char) v
uchar(v) == v % Byte

\* set_bytes: the `bytes` little-endian bytes of value >= 0
set_bytes(bytes, value) ==
    [i \in 1..bytes |-> uchar(value \div (IF i = 1 THEN 1 ELSE IF i = 2 THEN Byte
                                          ELSE IF i = 3 THEN Byte2 ELSE Byte3))]

BMP_HEADER_SIZE == 14
DIB_HEADER_SIZE == 40
Resolution == 2835

\* lines 163-168
bmp_header(array_bytes) ==
    <<66, 77>> \o set_bytes(4, BMP_HEADER_SIZE + DIB_HEADER_SIZE + array_bytes)
        \o set_bytes(2, 0) \o set_bytes(2, 0)
        \o set_bytes(4, BMP_HEADER_SIZE + DIB_HEADER_SIZE)

\* lines 171-181
dib_header(width_pixels, height_pixels, array_bytes) ==
    set_bytes(4, DIB_HEADER_SIZE) \o set_bytes(4, width_pixels)
        \o set_bytes(4, height_pixels) \o set_bytes(2, 1) \o set_bytes(2, 24)
        \o set_bytes(4, 0) \o set_bytes(4, array_bytes)
        \o set_bytes(4, Resolution) \o set_bytes(4, Resolution)
        \o set_bytes(4, 0) \o set_bytes(4, 0)

\* one pixel written as (red, green, blue)
pixel_bytes_rgb(p) == <<uchar(p.red), uchar(p.green), uchar(p.blue)>>

\* lines 197-200: one pixel as (blue, green, red)
pixel_bytes(p) == <<uchar(p.blue), uchar(p.green), uchar(p.red)>>

\* lines 194-203: the pixels of one row, then the padding bytes
RECURSIVE row_bytes(_, _, _)
row_bytes(row, w, padding_bytes) ==
    IF w > Len(row) THEN [i \in 1..padding_bytes |-> 0]
    ELSE pixel_bytes(row[w]) \o row_bytes(row, w + 1, padding_bytes)

\* lines 192-204: rows from the last (h) to the first
RECURSIVE pixel_array(_, _, _)
pixel_array(image, h, padding_bytes) ==
    IF h < 1 THEN <<>>
    ELSE row_bytes(image[h], 1, padding_bytes) \o pixel_array(image, h - 1, padding_bytes)

\* write_image: the bytes written.  Line 134 reads image[0].size(): on an
\* image without rows that is a read through a null row pointer, and a run
\* that survives it continues with the value g it happened to read.
write_image(image, g) ==
    LET width_pixels  == IF Len(image) = 0 THEN g ELSE Len(image[1])
        height_pixels == Len(image)
        padding_bytes == (4 - ((width_pixels * 3) % 4)) % 4
        width_bytes   == width_pixels * 3 + padding_bytes
        array_bytes   == width_bytes * height_pixels
    IN  bmp_header(array_bytes)
            \o dib_header(width_pixels, height_pixels, array_bytes)
            \o pixel_array(image, height_pixels, padding_bytes)

(***************************************************************************)
(* Processing helpers and transforms.                                      *)
(***************************************************************************)
\* size_image: image[0].size() of an image without rows is the same read
\* through a null row pointer; g is the value a surviving run reads
size_image(image, g) ==
    [rows |-> Len(image), cols |-> IF Len(image) = 0 THEN g ELSE Len(image[1])]

\* the tuple in the order (red, green, blue)
rbg_pixel_rgb(p) == <<p.red, p.green, p.blue>>

\* rbg_pixel: the tuple (red, blue, green)
rbg_pixel(p) == <<p.red, p.blue, p.green>>

\* new_pixel(r, b, g)
new_pixel(r, b, g) == [red |-> r, green |-> g, blue |-> b]

\* Pixel(): a value-initialised pixel
ZeroPixel == [red |-> 0, green |-> 0, blue |-> 0]

\* lines 267-279: pass i of the loop, on the two buffers
RECURSIVE rotate_loop(_, _, _, _, _, _)
rotate_loop(i, rotations, new_image, new_image_mirror, rows, cols) ==
    IF i > rotations
    THEN [new_image |-> new_image, new_image_mirror |-> new_image_mirror]
    ELSE IF i % 2 = 0
         THEN rotate_loop(i + 1, rotations, new_image,
                  [a \in 1..rows |-> [b \in 1..cols |-> new_image[b][rows + 1 - a]]],
                  rows, cols)
         ELSE rotate_loop(i + 1, rotations,
                  [a \in 1..cols |-> [b \in 1..rows |-> new_image_mirror[b][cols + 1 - a]]],
                  new_image_mirror, rows, cols)

\* rotate_90 with the parity test of line 280 reversed
rotate_90_parity(image, rotations, g) ==
    LET r == rotations % 4
        sz == size_image(image, g)
        first == [a \in 1..sz.cols |-> [b \in 1..sz.rows |-> image[b][sz.cols + 1 - a]]]
        blank == [a \in 1..sz.rows |-> [b \in 1..sz.cols |-> ZeroPixel]]
        bufs == rotate_loop(2, r, first, blank, sz.rows, sz.cols)
    IN  IF r = 0 THEN image
        ELSE IF r % 2 = 0 THEN bufs.new_image ELSE bufs.new_image_mirror

\* rotate_90, rotations >= 1
rotate_90(image, rotations, g) ==
    LET r == rotations % 4
        sz == size_image(image, g)
        \* lines 259-266: new_image[(cols - 1) - col][row] = image[row][col]
        first == [a \in 1..sz.cols |-> [b \in 1..sz.rows |-> image[b][sz.cols + 1 - a]]]
        blank == [a \in 1..sz.rows |-> [b \in 1..sz.cols |-> ZeroPixel]]
        bufs == rotate_loop(2, r, first, blank, sz.rows, sz.cols)
    IN  IF r = 0 THEN image
        ELSE IF r % 2 = 0 THEN bufs.new_image_mirror ELSE bufs.new_image

process_4(image, g) == rotate_90(image, 1, g)

\* process_5 with the rotation count num the user entered (num >= 1)
process_5(image, num, g) == rotate_90(image, num, g)

\* process_6 with the roles of the factors x and y exchanged
process_6_swapped(image, x, y, g) ==
    LET sz == size_image(image, g)
    IN  [row \in 1..(sz.rows * x) |->
           [col \in 1..(sz.cols * y) |->
              image[((row - 1) \div x) + 1][((col - 1) \div y) + 1]]]

\* process_6 with the factors x and y the user entered (both >= 1)
process_6(image, x, y, g) ==
    LET sz == size_image(image, g)
    IN  [row \in 1..(sz.rows * y) |->
           [col \in 1..(sz.cols * x) |->
              image[((row - 1) \div y) + 1][((col - 1) \div x) + 1]]]

max(a, b) == IF a < b THEN b ELSE a

\* lines 488-516: one pixel of process_10
threshold_pixel(p) ==
    LET t     == rbg_pixel(p)
        red   == t[1]
        blue  == t[2]
        green == t[3]
        mx    == max(max(red, blue), green)
        sum   == red + blue + green
    IN  IF sum >= 550 THEN new_pixel(255, 255, 255)
        ELSE IF sum <= 150 THEN new_pixel(0, 0, 0)
        ELSE IF mx = red THEN new_pixel(255, 0, 0)
        ELSE IF mx = green THEN new_pixel(0, 0, 255)
        ELSE new_pixel(0, 255, 0)

process_10(image, g) ==
    LET sz == size_image(image, g)
    IN  [row \in 1..sz.rows |-> [col \in 1..sz.cols |-> threshold_pixel(image[row][col])]]

(***************************************************************************)
(* process_1 (vignette).  The distance to the centre is                    *)
(* sqrt((col - cols/2.0)^2 + (row - rows/2.0)^2) = sqrt(D) / 2 with the    *)
(* integer D = (2 col - cols)^2 + (2 row - rows)^2, and the scale factor   *)
(* is (rows - dist) / rows = (2 rows - sqrt(D)) / (2 rows).  A channel c   *)
(* becomes c * scale_factor converted to int (truncation toward zero).     *)
(* The value is computed in exact arithmetic from integer square roots;    *)
(* the rounding of the double operations can move only a product that is   *)
(* an exact integer, by one toward zero.                                   *)
(***************************************************************************)
\* the integer square root of n >= 0 by bisection, lo^2 <= n < hi^2
RECURSIVE isqrt_search(_, _, _)
isqrt_search(n, lo, hi) ==
    IF hi - lo <= 1 THEN lo
    ELSE IF ((lo + hi) \div 2) * ((lo + hi) \div 2) <= n
         THEN isqrt_search(n, (lo + hi) \div 2, hi)
         ELSE isqrt_search(n, lo, (lo + hi) \div 2)

FloorSqrt(n) == isqrt_search(n, 0, IF n < 46340 THEN n + 1 ELSE 46341)
CeilSqrt(n) == IF FloorSqrt(n) * FloorSqrt(n) = n THEN FloorSqrt(n) ELSE FloorSqrt(n) + 1

\* line 301: 4 * dist^2 for the pixel at (row, col), both counted from 0
dist_sq4(row, col, rows, cols) ==
    (2 * col - cols) * (2 * col - cols) + (2 * row - rows) * (2 * row - rows)

\* line 302: scale_factor < 0, that is dist > rows
scale_negative(rows, d) == d > 4 * rows * rows

\* lines 305-307, c >= 0: (int)(c * scale_factor)
scaled(c, rows, d) ==
    IF scale_negative(rows, d)
    THEN -((FloorSqrt(c * c * d) - 2 * rows * c) \div (2 * rows))
    ELSE (2 * rows * c - CeilSqrt(c * c * d)) \div (2 * rows)

\* lines 305-307 for a channel of either sign
vignette_channel(c, rows, d) ==
    IF c >= 0 THEN scaled(c, rows, d) ELSE -scaled(-c, rows, d)

\* lines 298-309: one pixel of process_1
vignette_pixel(p, d, rows) ==
    new_pixel(vignette_channel(rbg_pixel(p)[1], rows, d),
              vignette_channel(rbg_pixel(p)[2], rows, d),
              vignette_channel(rbg_pixel(p)[3], rows, d))

process_1(image, g) ==
    LET sz == size_image(image, g)
    IN  [row \in 1..sz.rows |->
           [col \in 1..sz.cols |->
              vignette_pixel(image[row][col],
                             dist_sq4(row - 1, col - 1, sz.rows, sz.cols), sz.rows)]]

(***************************************************************************)
(* get_scale returns a double in (0, 1]; the scales modelled are dyadic    *)
(* fractions <<numerator, denominator>>, which a double holds exactly, so  *)
(* that channel * scale and its conversion to int are exact too.           *)
(***************************************************************************)
Scales == {<<1, 2>>, <<1, 1>>}

\* (int)(c * scale)
darker(c, scale) == CDiv(c * scale[1], scale[2])

\* (int)(255 - (255 - c) * scale)
lighter(c, scale) == CDiv(255 * scale[2] - (255 - c) * scale[1], scale[2])

\* lines 326-340 of process_2, avg = (red + blue + green) / 3
clarendon_channel(c, avg, scale) ==
    IF avg >= 170 THEN lighter(c, scale)
    ELSE IF avg < 90 THEN darker(c, scale)
    ELSE c

clarendon_pixel(t, scale) ==
    new_pixel(clarendon_channel(t[1], CDiv(t[1] + t[2] + t[3], 3), scale),
              clarendon_channel(t[2], CDiv(t[1] + t[2] + t[3], 3), scale),
              clarendon_channel(t[3], CDiv(t[1] + t[2] + t[3], 3), scale))

process_2(image, scale, g) ==
    LET sz == size_image(image, g)
    IN  [row \in 1..sz.rows |->
           [col \in 1..sz.cols |-> clarendon_pixel(rbg_pixel(image[row][col]), scale)]]

gray_pixel(t) ==
    new_pixel(CDiv(t[1] + t[2] + t[3], 3), CDiv(t[1] + t[2] + t[3], 3),
              CDiv(t[1] + t[2] + t[3], 3))

process_3(image, g) ==
    LET sz == size_image(image, g)
    IN  [row \in 1..sz.rows |->
           [col \in 1..sz.cols |-> gray_pixel(rbg_pixel(image[row][col]))]]

\* lines 425-435: (red + blue + green) / 3.0 >= 127.5
contrast_pixel(t) ==
    IF 2 * (t[1] + t[2] + t[3]) >= 765
    THEN new_pixel(255, 255, 255)
    ELSE new_pixel(0, 0, 0)

process_7(image, g) ==
    LET sz == size_image(image, g)
    IN  [row \in 1..sz.rows |->
           [col \in 1..sz.cols |-> contrast_pixel(rbg_pixel(image[row][col]))]]

lighten_pixel(t, scale) ==
    new_pixel(lighter(t[1], scale), lighter(t[2], scale), lighter(t[3], scale))

process_8(image, scale, g) ==
    LET sz == size_image(image, g)
    IN  [row \in 1..sz.rows |->
           [col \in 1..sz.cols |-> lighten_pixel(rbg_pixel(image[row][col]), scale)]]

darken_pixel(t, scale) ==
    new_pixel(darker(t[1], scale), darker(t[2], scale), darker(t[3], scale))

process_9(image, scale, g) ==
    LET sz == size_image(image, g)
    IN  [row \in 1..sz.rows |->
           [col \in 1..sz.cols |-> darken_pixel(rbg_pixel(image[row][col]), scale)]]

(***************************************************************************)
(* The menu.  cin >> input reads one token, a string of characters; atoi   *)
(* skips an optional sign and converts the decimal digits that follow, up  *)
(* to the first character that is no digit, and yields 0 when there are    *)
(* none.  The tokens modelled are short, so that atoi does not overflow.   *)
(***************************************************************************)
DigitChars == <<"0", "1", "2", "3", "4", "5", "6", "7", "8", "9">>

IsDigit(ch) == \E i \in 1..Len(DigitChars) : DigitChars[i] = ch

DigitValue(ch) == (CHOOSE i \in 1..Len(DigitChars) : DigitChars[i] = ch) - 1

RECURSIVE atoi_digits(_, _, _)
atoi_digits(str, i, acc) ==
    IF i > Len(str) \/ ~IsDigit(str[i]) THEN acc
    ELSE atoi_digits(str, i + 1, 10 * acc + DigitValue(str[i]))

atoi(str) ==
    IF str = <<>> THEN 0
    ELSE IF str[1] = "-" THEN -atoi_digits(str, 2, 0)
    ELSE IF str[1] = "+" THEN atoi_digits(str, 2, 0)
    ELSE atoi_digits(str, 1, 0)

\* what the user may type at the menu prompt
MenuInputs ==
    {<<"Q">>, <<"q">>, <<"x">>, <<"-">>, <<"Q", "1">>, <<"0">>, <<"0", "0">>,
     <<"1">>, <<"2">>, <<"3">>, <<"4">>, <<"5">>, <<"6">>, <<"7">>, <<"8">>,
     <<"9">>, <<"1", "0">>, <<"1", "1">>, <<"1", "2">>, <<"9", "9">>,
     <<"0", "7">>, <<"4", "x">>, <<"+", "5">>, <<"-", "0">>, <<"-", "1">>,
     <<"-", "5">>, <<"-", "1", "2">>}

\* lines 649 and 654
IsQuit(token) == token = <<"Q">> \/ token = <<"q">>

\* proc_arr and filter_arr have this many entries
RegistrySize == 10

\* filter_arr[i] and proc_arr[i] are elements of the arrays
InRegistry(i) == i \in 0..(RegistrySize - 1)

(***************************************************************************)
(* Input files.  An input is [file, src]: src.known says that the file was *)
(* produced by write_image from src.image.                                 *)
(***************************************************************************)
\* two pixels whose six channel values all differ
PixelA == [red |-> 255, green |-> 128, blue |-> 0]
PixelB == [red |-> 10, green |-> 20, blue |-> 30]

\* a pixel that names its position (i, j) and the shade k of its image: no
\* two positions of an image carry the same pixel
CodedPixel(i, j, k) ==
    [red |-> 100 * k + 16 * i + j, green |-> 255 - (16 * i + j), blue |-> 3 * (16 * i + j) + k]

CodedImage(r, c, k) == [i \in 1..r |-> [j \in 1..c |-> CodedPixel(i, j, k)]]

\* for every size up to MaxRows x MaxCols, two images of distinct pixels
GridImages ==
    {CodedImage(r, c, k) : <<r, c, k>> \in (1..MaxRows) \X (1..MaxCols) \X {0, 1}}

\* channel values around the thresholds 150 and 550 of process_10
ChannelValues == {0, 50, 51, 100, 150, 199, 200, 250, 255}

\* every single-pixel image over the channel values
PixelImages ==
    {<< <<[red |-> r, green |-> g, blue |-> b]>> >> :
        <<r, g, b>> \in ChannelValues \X ChannelValues \X ChannelValues}

EncodedInputs ==
    {[file |-> [open |-> TRUE, data |-> write_image(img, 0)],
      src  |-> [known |-> TRUE, image |-> img]] : img \in GridImages \cup PixelImages}

NoSrc == [known |-> FALSE, image |-> <<>>]

\* sixteen bytes of pixel data
CraftBody == [i \in 1..16 |-> 16 * i - 1]

\* a 70-byte file whose header declares the given fields (offset 54)
CraftedFile(file_size, width, height, bits_per_pixel) ==
    <<66, 77>> \o set_bytes(4, file_size) \o set_bytes(4, 0)
        \o set_bytes(4, BMP_HEADER_SIZE + DIB_HEADER_SIZE)
        \o set_bytes(4, DIB_HEADER_SIZE) \o set_bytes(4, width) \o set_bytes(4, height)
        \o set_bytes(2, 1) \o set_bytes(2, bits_per_pixel)
        \o [i \in 1..24 |-> 0] \o CraftBody

CraftSizes == {54, 58, 62, 70}
CraftWidths == {0, 1, 2}
CraftHeights == {0, 1, 2}
CraftDepths == {16, 24, 32}

CraftedInputs ==
    {[file |-> [open |-> TRUE, data |-> CraftedFile(fs, w, h, d)], src |-> NoSrc] :
        <<fs, w, h, d>> \in CraftSizes \X CraftWidths \X CraftHeights \X CraftDepths}

\* a file cut short after n bytes, for lengths inside every header field
TruncLengths == {0, 1, 3, 4, 11, 12, 19, 20, 23, 25, 29, 30, 53, 60}

TruncatedInputs ==
    {[file |-> [open |-> TRUE, data |-> SubSeq(CraftedFile(70, 2, 2, 24), 1, n)],
      src |-> NoSrc] : n \in TruncLengths}

\* a file that cannot be opened
MissingInput == [file |-> [open |-> FALSE, data |-> <<>>], src |-> NoSrc]

InputFiles == EncodedInputs \cup CraftedInputs \cup TruncatedInputs \cup {MissingInput}

\* the files the user switches to with menu entry 11
OtherInputs ==
    {MissingInput,
     [file |-> [open |-> TRUE, data |-> CraftedFile(62, 2, 1, 24)], src |-> NoSrc],
     [file |-> [open |-> TRUE, data |-> write_image(<< <<PixelA, PixelB>> >>, 0)],
      src  |-> [known |-> TRUE, image |-> << <<PixelA, PixelB>> >>]]}

\* what a read through the null row pointer of an image without rows yields
\* in a run that survives it
Garbage == {0, 1}
GarbageOf(image) == IF Len(image) = 0 THEN Garbage ELSE {0}

(***************************************************************************)
(* The program.  pc is the position of main / execute:                     *)
(*   "menu"      main waits for a menu selection                           *)
(*   "execute"   execute was called, get_image comes next (line 590)       *)
(*   "decoded"   get_image returned, process(image) comes next (line 591)  *)
(*   "processed" process returned, respond comes next (line 592)           *)
(*   "responded" respond returned, execute returns next                    *)
(*   "crashed"   the process ended abnormally (fault says why)             *)
(*   "wild"      the process runs code the program does not name           *)
(*   "done"      main returned                                             *)
(***************************************************************************)
VARIABLES
    pc,         \* position, see above
    input,      \* the file `filename` names: [open, data]
    src,        \* the image the input file was encoded from, if known
    sel,        \* the menu selection being served
    hdr,        \* read_image: the header fields it read
    status,     \* read_image: "rejected", "ok" (or "none" before the call)
    image,      \* execute: the decoded image
    reads,      \* read_image: number of pixel bytes read
    args,       \* what the user entered inside the filter (count, factors, scale)
    new_image,  \* execute: the transformed image
    output,     \* respond: [written, data], the output file
    fault       \* why the process crashed

vars == <<pc, input, src, sel, hdr, status, image, reads, args, new_image, output, fault>>

NoHdr == [file_size |-> 0, start |-> 0, width |-> 0, height |-> 0,
          bits_per_pixel |-> 0, failed |-> FALSE, ov |-> FALSE]
NoArgs == [num |-> 0, x |-> 0, y |-> 0, scale |-> <<0, 1>>]
NoOutput == [written |-> FALSE, data |-> <<>>]

\* the locals of execute and of the functions it calls, before a call
FreshLocals ==
    /\ hdr' = NoHdr
    /\ status' = "none"
    /\ image' = <<>>
    /\ reads' = 0
    /\ args' = NoArgs
    /\ new_image' = <<>>
    /\ output' = NoOutput

Init ==
    /\ pc = "menu"
    /\ \E i \in InputFiles : input = i.file /\ src = i.src
    /\ sel = 0
    /\ hdr = NoHdr
    /\ status = "none"
    /\ image = <<>>
    /\ reads = 0
    /\ args = NoArgs
    /\ new_image = <<>>
    /\ output = NoOutput
    /\ fault = "none"

\* the selections that name an entry of the registry
Filters == {s \in 1..11 : InRegistry(s - 1)}

\* main, lines 645-653: the token converts to 0 and the menu is shown again
MenuAgain ==
    /\ pc = "menu"
    /\ \E token \in MenuInputs : \E s \in {atoi(token)} :
          /\ ~IsQuit(token)
          /\ s = 0
          /\ sel' = s
    /\ FreshLocals
    /\ UNCHANGED <<pc, input, src, fault>>

\* main, lines 657-659: a selection above 11 is skipped
MenuSkip ==
    /\ pc = "menu"
    /\ \E token \in MenuInputs : \E s \in {atoi(token)} :
          /\ ~IsQuit(token)
          /\ s # 0
          /\ s > 11
          /\ sel' = s
    /\ FreshLocals
    /\ UNCHANGED <<pc, input, src, fault>>

\* main, line 660, and map_selection, line 629: a filter is selected
MenuSelect ==
    /\ pc = "menu"
    /\ \E token \in MenuInputs : \E s \in {atoi(token)} :
          /\ ~IsQuit(token)
          /\ s # 0
          /\ ~(s > 11)
          /\ s # 11
          /\ InRegistry(s - 1)
          /\ sel' = s
    /\ pc' = "execute"
    /\ FreshLocals
    /\ UNCHANGED <<input, src, fault>>

\* main, line 660, and map_selection, line 629: filter_arr[s-1] and
\* proc_arr[s-1] are read outside the arrays; the run crashes, or calls
\* through whatever lies there
RegistryFault ==
    /\ pc = "menu"
    /\ \E token \in MenuInputs : \E s \in {atoi(token)} :
          /\ ~IsQuit(token)
          /\ s # 0
          /\ ~(s > 11)
          /\ s # 11
          /\ ~InRegistry(s - 1)
          /\ sel' = s
    /\ \E outcome \in {"crashed", "wild"} : pc' = outcome
    /\ fault' = "registry_index"
    /\ FreshLocals
    /\ UNCHANGED <<input, src>>

\* map_selection, lines 625-628: entry 11, another input file is named
ChangeImage ==
    /\ pc = "menu"
    /\ \E token \in MenuInputs : \E s \in {atoi(token)} :
          /\ ~IsQuit(token)
          /\ s = 11
          /\ sel' = s
    /\ \E i \in OtherInputs : input' = i.file /\ src' = i.src
    /\ FreshLocals
    /\ UNCHANGED <<pc, fault>>

\* main, lines 649-656: Q or q
Quit ==
    /\ pc = "menu"
    /\ \E token \in MenuInputs : IsQuit(token)
    /\ pc' = "done"
    /\ UNCHANGED <<input, src, sel, hdr, status, image, reads, args, new_image, output, fault>>

\* the return of read_image, or the exception leaving it
Decoded(r) ==
    IF r.status = "throws"
    THEN /\ pc' = "crashed"
         /\ fault' = "length_error"
         /\ hdr' = r.hdr
         /\ UNCHANGED <<status, image, reads>>
    ELSE /\ pc' = "decoded"
         /\ hdr' = r.hdr
         /\ status' = r.status
         /\ image' = r.image
         /\ reads' = r.reads
         /\ UNCHANGED fault

\* execute, line 590: get_image -> read_image
GetImage ==
    /\ pc = "execute"
    /\ \E r \in {read_image(input)} : Decoded(r)
    /\ UNCHANGED <<input, src, sel, args, new_image, output>>

\* execute, line 590, in a build that traps on signed overflow
GetImageTrap ==
    /\ pc = "execute"
    /\ read_ov(input)
    /\ pc' = "crashed"
    /\ fault' = "overflow_trap"
    /\ UNCHANGED <<input, src, sel, hdr, status, image, reads, args, new_image, output>>

\* execute, line 591, for each entry of proc_arr
Process1 ==
    /\ pc = "decoded" /\ sel = 1
    /\ \E g \in GarbageOf(image) : new_image' = process_1(image, g)
    /\ pc' = "processed"
    /\ UNCHANGED <<input, src, sel, hdr, status, image, reads, args, output, fault>>

Process2 ==
    /\ pc = "decoded" /\ sel = 2
    /\ \E scale \in Scales : \E g \in GarbageOf(image) :
          /\ args' = [args EXCEPT !.scale = scale]
          /\ new_image' = process_2(image, scale, g)
    /\ pc' = "processed"
    /\ UNCHANGED <<input, src, sel, hdr, status, image, reads, output, fault>>

Process3 ==
    /\ pc = "decoded" /\ sel = 3
    /\ \E g \in GarbageOf(image) : new_image' = process_3(image, g)
    /\ pc' = "processed"
    /\ UNCHANGED <<input, src, sel, hdr, status, image, reads, args, output, fault>>

Process4 ==
    /\ pc = "decoded" /\ sel = 4
    /\ \E g \in GarbageOf(image) : new_image' = process_4(image, g)
    /\ pc' = "processed"
    /\ UNCHANGED <<input, src, sel, hdr, status, image, reads, args, output, fault>>

Process5 ==
    /\ pc = "decoded" /\ sel = 5
    /\ \E num \in 1..MaxRot : \E g \in GarbageOf(image) :
          /\ args' = [args EXCEPT !.num = num]
          /\ new_image' = process_5(image, num, g)
    /\ pc' = "processed"
    /\ UNCHANGED <<input, src, sel, hdr, status, image, reads, output, fault>>

Process6 ==
    /\ pc = "decoded" /\ sel = 6
    /\ \E x \in 1..MaxScale : \E y \in 1..MaxScale : \E g \in GarbageOf(image) :
          /\ args' = [args EXCEPT !.x = x, !.y = y]
          /\ new_image' = process_6(image, x, y, g)
    /\ pc' = "processed"
    /\ UNCHANGED <<input, src, sel, hdr, status, image, reads, output, fault>>

Process7 ==
    /\ pc = "decoded" /\ sel = 7
    /\ \E g \in GarbageOf(image) : new_image' = process_7(image, g)
    /\ pc' = "processed"
    /\ UNCHANGED <<input, src, sel, hdr, status, image, reads, args, output, fault>>

Process8 ==
    /\ pc = "decoded" /\ sel = 8
    /\ \E scale \in Scales : \E g \in GarbageOf(image) :
          /\ args' = [args EXCEPT !.scale = scale]
          /\ new_image' = process_8(image, scale, g)
    /\ pc' = "processed"
    /\ UNCHANGED <<input, src, sel, hdr, status, image, reads, output, fault>>

Process9 ==
    /\ pc = "decoded" /\ sel = 9
    /\ \E scale \in Scales : \E g \in GarbageOf(image) :
          /\ args' = [args EXCEPT !.scale = scale]
          /\ new_image' = process_9(image, scale, g)
    /\ pc' = "processed"
    /\ UNCHANGED <<input, src, sel, hdr, status, image, reads, output, fault>>

Process10 ==
    /\ pc = "decoded" /\ sel = 10
    /\ \E g \in GarbageOf(image) : new_image' = process_10(image, g)
    /\ pc' = "processed"
    /\ UNCHANGED <<input, src, sel, hdr, status, image, reads, args, output, fault>>

\* execute, line 591: size_image reads image[0] of an image without rows
\* and the run does not survive it
ProcessFault ==
    /\ pc = "decoded"
    /\ Len(image) = 0
    /\ pc' = "crashed"
    /\ fault' = "empty_access"
    /\ UNCHANGED <<input, src, sel, hdr, status, image, reads, args, new_image, output>>

\* execute, line 592: respond -> write_image; the return value is ignored
Respond ==
    /\ pc = "processed"
    /\ \E opened \in BOOLEAN : \E g \in GarbageOf(new_image) :
          output' = [written |-> opened,
                     data |-> IF opened THEN write_image(new_image, g) ELSE <<>>]
    /\ pc' = "responded"
    /\ UNCHANGED <<input, src, sel, hdr, status, image, reads, args, new_image, fault>>

\* execute, line 592: write_image reads image[0] of an image without rows
\* and the run does not survive it
RespondFault ==
    /\ pc = "processed"
    /\ Len(new_image) = 0
    /\ pc' = "crashed"
    /\ fault' = "empty_access"
    /\ UNCHANGED <<input, src, sel, hdr, status, image, reads, args, new_image, output>>

\* execute returns, map_selection returns current_file (line 630), and the
\* loop of main starts over with sel = 0 (line 645)
Return ==
    /\ pc = "responded"
    /\ pc' = "menu"
    /\ sel' = 0
    /\ FreshLocals
    /\ UNCHANGED <<input, src, fault>>

Next ==
    \/ MenuAgain
    \/ MenuSkip
    \/ MenuSelect
    \/ RegistryFault
    \/ ChangeImage
    \/ Quit
    \/ GetImage
    \/ GetImageTrap
    \/ Process1
    \/ Process2
    \/ Process3
    \/ Process4
    \/ Process5
    \/ Process6
    \/ Process7
    \/ Process8
    \/ Process9
    \/ Process10
    \/ ProcessFault
    \/ Respond
    \/ RespondFault
    \/ Return

Spec == Init /\ [][Next]_vars

(***************************************************************************)
(* Properties.                                                             *)
(***************************************************************************)
\* read_image has returned or thrown in the current execute
DecoderRan == status # "none" \/ fault = "length_error"

\* the image has at least one row and every row at least one column
NonDegenerate(img) == Len(img) >= 1 /\ \A i \in 1..Len(img) : Len(img[i]) >= 1

\* every channel of every pixel is in 0..255
InRange(img) ==
    \A i \in 1..Len(img) : \A j \in 1..Len(img[i]) :
        /\ img[i][j].red \in 0..255
        /\ img[i][j].green \in 0..255
        /\ img[i][j].blue \in 0..255

\* the decoder result r is the image img
DecodesTo(r, img) == r.status = "ok" /\ r.image = img

\* C1: decoding the bytes write_image produced for an image of at least one
\* row and one column with channels in 0..255 gives back that image: the
\* same number of rows and columns and the same pixel at every position.
\* Checked for the input files encoded from src.image and for every output
\* file respond wrote from new_image.
RoundTrip ==
    /\ (DecoderRan /\ src.known) => (status = "ok" /\ image = src.image)
    /\ (output.written /\ NonDegenerate(new_image) /\ InRange(new_image))
          => DecodesTo(read_image([open |-> TRUE, data |-> output.data]), new_image)

\* a 2 x 3 image (rows padded by 3 bytes) came back from its encoding
RoundTripWitness ==
    /\ pc = "decoded"
    /\ src.known
    /\ Len(src.image) = 2
    /\ Len(src.image[1]) = 3
    /\ image = src.image

\* n >= 0 rounded up to a multiple of 4
RoundUp4(n) == ((n + 3) \div 4) * 4

\* the five header fields are all inside the file
HeaderPresent == input.open /\ Len(input.data) >= 30

\* the declared file size is the offset plus the padded row size times height
SizeConsistent ==
    hdr.file_size = hdr.start + RoundUp4(hdr.width * (hdr.bits_per_pixel \div 8)) * hdr.height

RotateClockwise ==
    (pc = "processed" /\ sel = 4 /\ NonDegenerate(image))
        => /\ Len(new_image) = Len(image[1])
           /\ \A a \in 1..Len(new_image) : Len(new_image[a]) = Len(image)
           /\ \A row \in 1..Len(image) : \A col \in 1..Len(image[1]) :
                  new_image[col][Len(image) + 1 - row] = image[row][col]

\* the single rotation applied n times in succession
RECURSIVE rotate_times(_, _)
rotate_times(img, n) == IF n = 0 THEN img ELSE rotate_times(rotate_90(img, 1, 0), n - 1)

\* C4: rotate_90(image, N) is the image obtained by applying rotate_90(.,1)
\* N times in succession, for every N >= 1 and every image of at least one
\* row and one column (N mod 4 = 0 returns the input).
RotateNIsIterated ==
    (pc = "processed" /\ sel = 5 /\ NonDegenerate(image))
        => new_image = rotate_times(image, args.num)

\* a 2 x 3 image was rotated three times
RotateNWitness ==
    /\ pc = "processed"
    /\ sel = 5
    /\ args.num = 3
    /\ Len(image) = 2
    /\ Len(image[1]) = 3
    /\ Len(new_image) = 3

\* C5: an image returned by a successful decode (a non-empty result) has at
\* least one row and every row has at least one column.
DecodedNonDegenerate ==
    (status = "ok" /\ image # <<>>) => NonDegenerate(image)

\* 256 ^ i for i in 0..3
Pow256(i) == IF i = 0 THEN 1 ELSE IF i = 1 THEN Byte ELSE IF i = 2 THEN Byte2 ELSE Byte3

\* the little-endian value of the bytes offset .. offset + bytes - 1 that are
\* inside the file, a byte past the end counting as zero
RECURSIVE PresentValue(_, _, _)
PresentValue(file, offset, bytes) ==
    IF bytes = 0 THEN 0
    ELSE PresentValue(file, offset, bytes - 1)
         + (IF file.open /\ offset + bytes - 1 < Len(file.data)
            THEN file.data[offset + bytes] * Pow256(bytes - 1) ELSE 0)

\* C6: a byte get_int requests past the end of the data contributes zero:
\* each header field is the value of the bytes actually present.
MissingBytesAreZero ==
    DecoderRan
        => /\ hdr.file_size = PresentValue(input, 2, 4)
           /\ hdr.start = PresentValue(input, 10, 4)
           /\ hdr.width = PresentValue(input, 18, 4)
           /\ hdr.height = PresentValue(input, 22, 4)
           /\ hdr.bits_per_pixel = PresentValue(input, 28, 2)

\* C7: when the input cannot be opened read_image returns the empty image:
\* with 32-bit arithmetic the header fields of the failed stream do not
\* satisfy the check of line 66, no pixel grid is allocated and no pixel is
\* read.
UnopenedRejected ==
    ~input.open
        => /\ status \in {"none", "rejected"}
           /\ fault # "length_error"
           /\ image = <<>>
           /\ reads = 0

\* read_image returned for a file that could not be opened
UnopenedWitness ==
    /\ ~input.open
    /\ pc = "decoded"
    /\ status = "rejected"
    /\ hdr.file_size = hdr.width
    /\ hdr.file_size < 0

\* C8: process_6 with factors X (horizontal) and Y (vertical) on an R x C
\* image returns an (R*Y) x (C*X) image whose pixel at (r, c) is the input
\* pixel at (r div Y, c div X), so that each Y x X block is a copy of one
\* source pixel.
EnlargeNearest ==
    (pc = "processed" /\ sel = 6 /\ NonDegenerate(image))
        => /\ Len(new_image) = Len(image) * args.y
           /\ \A r \in 1..Len(new_image) : Len(new_image[r]) = Len(image[1]) * args.x
           /\ \A r \in 0..(Len(image) * args.y - 1) : \A c \in 0..(Len(image[1]) * args.x - 1) :
                  new_image[r + 1][c + 1] = image[(r \div args.y) + 1][(c \div args.x) + 1]
           /\ \A i \in 1..Len(image) : \A j \in 1..Len(image[1]) :
                  \A dy \in 1..args.y : \A dx \in 1..args.x :
                      new_image[(i - 1) * args.y + dy][(j - 1) * args.x + dx] = image[i][j]

\* a 2 x 3 image was enlarged by X = 2, Y = 1
EnlargeWitness ==
    /\ pc = "processed"
    /\ sel = 6
    /\ args.x = 2
    /\ args.y = 1
    /\ Len(image) = 2
    /\ Len(image[1]) = 3
    /\ Len(new_image) = 2
    /\ Len(new_image[1]) = 6

White == [red |-> 255, green |-> 255, blue |-> 255]
Black == [red |-> 0, green |-> 0, blue |-> 0]
PureRed == [red |-> 255, green |-> 0, blue |-> 0]
PureGreen == [red |-> 0, green |-> 255, blue |-> 0]
PureBlue == [red |-> 0, green |-> 0, blue |-> 255]

\* the colour C9 names for a pixel
ThresholdColour(p) ==
    IF p.red + p.green + p.blue >= 550 THEN White
    ELSE IF p.red + p.green + p.blue <= 150 THEN Black
    ELSE IF p.red >= p.green /\ p.red >= p.blue THEN PureRed
    ELSE IF p.green >= p.blue THEN PureGreen
    ELSE PureBlue

\* C9: process_10 maps every pixel with channels in 0..255 to white when
\* red + green + blue >= 550, to black when the sum is <= 150, and otherwise
\* to pure red, green or blue after its maximum channel, ties resolved red
\* first, then green, then blue; the output has the input's dimensions.
ColourThreshold ==
    (pc = "processed" /\ sel = 10 /\ NonDegenerate(image) /\ InRange(image))
        => /\ Len(new_image) = Len(image)
           /\ \A i \in 1..Len(image) :
                 /\ Len(new_image[i]) = Len(image[i])
                 /\ \A j \in 1..Len(image[i]) : new_image[i][j] = ThresholdColour(image[i][j])

\* a pixel whose green and blue tie for the maximum became pure green
ColourThresholdWitness ==
    /\ pc = "processed"
    /\ sel = 10
    /\ NonDegenerate(image)
    /\ image[1][1].green = image[1][1].blue
    /\ image[1][1].red < image[1][1].green
    /\ image[1][1].red + image[1][1].green + image[1][1].blue \in 151..549
    /\ new_image[1][1] = PureGreen

\* C10: after a decode that yields the empty image, neither a transform nor
\* the encoder is invoked on it: execute does not go on to process(image),
\* and no row 0 of an image without rows is accessed.
EmptyImageNotUsed ==
    (DecoderRan /\ Len(image) = 0)
        => /\ pc # "processed"
           /\ fault # "empty_access"
           /\ ~output.written

\* C11: process_1 keeps channels in range: for an image of at least one row
\* and one column with channels in 0..255 every channel of every output
\* pixel is in 0..255, the scale factor (rows - dist) / rows being negative
\* for no pixel.
VignetteInRange ==
    (pc = "processed" /\ sel = 1 /\ NonDegenerate(image) /\ InRange(image))
        => /\ InRange(new_image)
           /\ \A row \in 1..Len(image) : \A col \in 1..Len(image[1]) :
                  ~scale_negative(Len(image),
                                  dist_sq4(row - 1, col - 1, Len(image), Len(image[1])))

\* C12: map_selection is only ever called with a selection in 1..11, and
\* the registry is only ever indexed with s - 1 in 0..9: a token that
\* converts to zero, to a negative number or to a number above 11 never
\* reaches the registry lookup.
RegistryIndexInRange ==
    /\ fault # "registry_index"
    /\ (pc \notin {"menu", "done"}) => InRegistry(sel - 1)

=============================================================================
